---- MODULE Spec2Model ----
(***************************************************************************)
(* Drawing canvas with undo/redo history and a bouncing-sprite animation   *)
(* (src/src/App.tsx).  The canvas is a GridW x GridH raster of RGBA        *)
(* pixels stored row-major, as ImageData.data is; coordinates of the       *)
(* sprite are kept in half pixels so that imgWidth / 2 stays an integer.   *)
(***************************************************************************)
EXTENDS Integers, Sequences, FiniteSets, TLC

\* ------------------------------------------------------------------ bounds
\* canvas size in pixels (600 x 400 in the deployment)
GridW == 2
GridH == 1
\* startDrawing, draw and tool changes a counted run may make
MaxStrokes == 2
MaxDraws == 1
MaxTools == 1
\* frame requests a run may issue
MaxFrames == 2
\* strokes the observer follows from startup in a long run
LongStrokes == 22
\* canvas width of the runs that follow one flood fill; the height keeps the
\* 3 : 2 shape of the deployment's 600 x 400 canvas
FillW == 3
FillH == (2 * FillW) \div 3
\* frame requests a run that follows one animation may issue
PhysFrames == 4

\* ------------------------------------------------------- program constants
MaxHistory == 20
NumPhrases == 8

NPix == GridW * GridH

White == <<255, 255, 255, 255>>
Black == <<0, 0, 0, 255>>
Undefined == <<-1, -1, -1, -1>>

\* color strings, one character per element
StrBlack == <<"b", "l", "a", "c", "k">>
StrWhite == <<"w", "h", "i", "t", "e">>
StrRed == <<"#", "f", "f", "0", "0", "0", "0">>

Palette == {StrRed}
Modes == {"pen", "fill", "eraser"}
LineWidths == {1, 2}

\* pointer positions in canvas coordinates (getCanvasRelativePosition)
Pointer == [x : 0..(GridW - 1), y : 0..(GridH - 1)]

\* ImageData of an all-white canvas
Blank == [i \in 1..NPix |-> White]

HexDigits == <<"0", "1", "2", "3", "4", "5", "6", "7", "8", "9", "a", "b", "c", "d", "e", "f">>

\* parseInt of one hexadecimal digit
HexVal(c) == (CHOOSE k \in 1..16 : HexDigits[k] = c) - 1

hexToRgba(hex) ==
    IF Len(hex) = 7
    THEN <<16 * HexVal(hex[2]) + HexVal(hex[3]),
           16 * HexVal(hex[4]) + HexVal(hex[5]),
           16 * HexVal(hex[6]) + HexVal(hex[7]), 255>>
    ELSE <<0, 0, 0, 255>>

\* the color a canvas strokeStyle string denotes
strokeStyleRgba(s) ==
    IF s = StrWhite THEN White
    ELSE IF s = StrBlack THEN Black
    ELSE hexToRgba(s)

\* --------------------------------------------------------------- fillFlood
\* a read past the end of ImageData.data is undefined
getPixelColorOn(data, canvasWidth, px, py) ==
    LET idx == py * canvasWidth + px
    IN  IF idx >= 0 /\ idx < Len(data) THEN data[idx + 1] ELSE Undefined

getPixelColor(data, px, py) == getPixelColorOn(data, GridW, px, py)

colorsMatch(c1, c2) ==
    c1[1] = c2[1] /\ c1[2] = c2[2] /\ c1[3] = c2[3] /\ c1[4] = c2[4]

\* a loop that never looks at the pixel below
RECURSIVE fillRun_noDown(_, _, _, _, _, _, _, _)
fillRun_noDown(data, queue, targetColor, fillColor, canvasWidth, canvasHeight, writes, steps) ==
    IF Len(queue) = 0 THEN [data |-> data, writes |-> writes, steps |-> steps]
    ELSE LET cx == queue[1][1]
             cy == queue[1][2]
             rest == Tail(queue)
         IN  IF cx < 0 \/ cx >= canvasWidth \/ cy < 0 \/ cy >= canvasHeight
             THEN fillRun_noDown(data, rest, targetColor, fillColor,
                                 canvasWidth, canvasHeight, writes, steps + 1)
             ELSE LET idx == cy * canvasWidth + cx
                  IN  IF colorsMatch(data[idx + 1], targetColor)
                      THEN fillRun_noDown([data EXCEPT ![idx + 1] = fillColor],
                                   rest \o << <<cx - 1, cy>>, <<cx + 1, cy>>,
                                              <<cx, cy - 1>> >>,
                                   targetColor, fillColor,
                                   canvasWidth, canvasHeight,
                                   Append(writes, idx), steps + 1)
                      ELSE fillRun_noDown(data, rest, targetColor, fillColor,
                                   canvasWidth, canvasHeight, writes, steps + 1)

\* a loop whose bounds test lets column canvasWidth through
RECURSIVE fillRun_offByOne(_, _, _, _, _, _, _, _)
fillRun_offByOne(data, queue, targetColor, fillColor, canvasWidth, canvasHeight, writes, steps) ==
    IF Len(queue) = 0 THEN [data |-> data, writes |-> writes, steps |-> steps]
    ELSE LET cx == queue[1][1]
             cy == queue[1][2]
             rest == Tail(queue)
         IN  IF cx < 0 \/ cx > canvasWidth \/ cy < 0 \/ cy >= canvasHeight
             THEN fillRun_offByOne(data, rest, targetColor, fillColor,
                                   canvasWidth, canvasHeight, writes, steps + 1)
             ELSE LET idx == cy * canvasWidth + cx
                  IN  IF idx < Len(data) /\ colorsMatch(data[idx + 1], targetColor)
                      THEN fillRun_offByOne([data EXCEPT ![idx + 1] = fillColor],
                                   rest \o << <<cx - 1, cy>>, <<cx + 1, cy>>,
                                              <<cx, cy - 1>>, <<cx, cy + 1>> >>,
                                   targetColor, fillColor,
                                   canvasWidth, canvasHeight,
                                   Append(writes, idx), steps + 1)
                      ELSE fillRun_offByOne(data, rest, targetColor, fillColor,
                                   canvasWidth, canvasHeight, writes, steps + 1)

\* a loop that paints every pixel not yet of the fill color
RECURSIVE fillRun_anyColor(_, _, _, _, _, _, _, _)
fillRun_anyColor(data, queue, targetColor, fillColor, canvasWidth, canvasHeight, writes, steps) ==
    IF Len(queue) = 0 THEN [data |-> data, writes |-> writes, steps |-> steps]
    ELSE LET cx == queue[1][1]
             cy == queue[1][2]
             rest == Tail(queue)
         IN  IF cx < 0 \/ cx >= canvasWidth \/ cy < 0 \/ cy >= canvasHeight
             THEN fillRun_anyColor(data, rest, targetColor, fillColor,
                                   canvasWidth, canvasHeight, writes, steps + 1)
             ELSE LET idx == cy * canvasWidth + cx
                  IN  IF ~colorsMatch(data[idx + 1], fillColor)
                      THEN fillRun_anyColor([data EXCEPT ![idx + 1] = fillColor],
                                   rest \o << <<cx - 1, cy>>, <<cx + 1, cy>>,
                                              <<cx, cy - 1>>, <<cx, cy + 1>> >>,
                                   targetColor, fillColor,
                                   canvasWidth, canvasHeight,
                                   Append(writes, idx), steps + 1)
                      ELSE fillRun_anyColor(data, rest, targetColor, fillColor,
                                   canvasWidth, canvasHeight, writes, steps + 1)

\* the while loop over the queue; writes lists the pixel indices in the order
\* they were set to fillColor, steps counts the queue.shift() calls
RECURSIVE fillRun(_, _, _, _, _, _, _, _)
fillRun(data, queue, targetColor, fillColor, canvasWidth, canvasHeight, writes, steps) ==
    IF Len(queue) = 0 THEN [data |-> data, writes |-> writes, steps |-> steps]
    ELSE LET cx == queue[1][1]
             cy == queue[1][2]
             rest == Tail(queue)
         IN  IF cx < 0 \/ cx >= canvasWidth \/ cy < 0 \/ cy >= canvasHeight
             THEN fillRun(data, rest, targetColor, fillColor,
                          canvasWidth, canvasHeight, writes, steps + 1)
             ELSE LET idx == cy * canvasWidth + cx
                  IN  IF colorsMatch(data[idx + 1], targetColor)
                      THEN fillRun([data EXCEPT ![idx + 1] = fillColor],
                                   rest \o << <<cx - 1, cy>>, <<cx + 1, cy>>,
                                              <<cx, cy - 1>>, <<cx, cy + 1>> >>,
                                   targetColor, fillColor,
                                   canvasWidth, canvasHeight,
                                   Append(writes, idx), steps + 1)
                      ELSE fillRun(data, rest, targetColor, fillColor,
                                   canvasWidth, canvasHeight, writes, steps + 1)

fillLoop(data, queue, targetColor, fillColor) ==
    fillRun(data, queue, targetColor, fillColor, GridW, GridH, <<>>, 0).data

\* fillFlood on a canvas of any size, with the record of its loop
fillFloodOn(data, canvasWidth, canvasHeight, x, y, fillColor) ==
    LET targetColor == getPixelColorOn(data, canvasWidth, x, y)
    IN  IF colorsMatch(targetColor, fillColor)
        THEN [data |-> data, writes |-> <<>>, steps |-> 0]
        ELSE fillRun(data, << <<x, y>> >>, targetColor, fillColor,
                     canvasWidth, canvasHeight, <<>>, 0)

fillFlood(data, x, y, fillColor) ==
    LET targetColor == getPixelColor(data, x, y)
    IN  IF colorsMatch(targetColor, fillColor) THEN data
        ELSE fillLoop(data, << <<x, y>> >>, targetColor, fillColor)

\* ----------------------------------------------------- round-capped stroke
\* pixel (px, py) lies within w / 2 of the segment a-b
onStroke(px, py, a, b, w) ==
    LET dx == b.x - a.x
        dy == b.y - a.y
        ex == px - a.x
        ey == py - a.y
        dd == dx * dx + dy * dy
        de == dx * ex + dy * ey
        ee == ex * ex + ey * ey
        fx == px - b.x
        fy == py - b.y
    IN  IF dd = 0 \/ de <= 0 THEN 4 * ee <= w * w
        ELSE IF de >= dd THEN 4 * (fx * fx + fy * fy) <= w * w
        ELSE 4 * (ee * dd - de * de) <= w * w * dd

strokeLine(data, a, b, w, rgba) ==
    [i \in 1..NPix |->
        IF onStroke((i - 1) % GridW, (i - 1) \div GridW, a, b, w)
        THEN rgba ELSE data[i]]

\* ------------------------------------------------------------ undo history
\* saveHistory that keeps the redo tail
saveHistory_noCut(h, index, imageData) ==
    LET pushed == Append(h, imageData)
    IN  IF Len(pushed) > MaxHistory
        THEN [history |-> Tail(pushed), index |-> index]
        ELSE [history |-> pushed, index |-> index + 1]

\* saveHistory that drops the oldest entry one push too late
saveHistory_grow(h, index, imageData) ==
    LET cut == IF index < Len(h) - 1 THEN SubSeq(h, 1, index + 1) ELSE h
        pushed == Append(cut, imageData)
    IN  IF Len(pushed) > MaxHistory + 1
        THEN [history |-> Tail(pushed), index |-> index]
        ELSE [history |-> pushed, index |-> index + 1]

\* saveHistory that moves the index down with the entries when it drops the
\* oldest one
saveHistory_shiftIndex(h, index, imageData) ==
    LET cut == IF index < Len(h) - 1 THEN SubSeq(h, 1, index + 1) ELSE h
        pushed == Append(cut, imageData)
    IN  IF Len(pushed) > MaxHistory
        THEN [history |-> Tail(pushed), index |-> index - 1]
        ELSE [history |-> pushed, index |-> index + 1]

saveHistory(h, index, imageData) ==
    LET cut == IF index < Len(h) - 1 THEN SubSeq(h, 1, index + 1) ELSE h
        pushed == Append(cut, imageData)
    IN  IF Len(pushed) > MaxHistory
        THEN [history |-> Tail(pushed), index |-> index]
        ELSE [history |-> pushed, index |-> index + 1]

\* undo that moves the index back without putting the snapshot on the canvas
undoResult_keep(h, index, data) ==
    IF index <= 0
    THEN [index |-> -1, buffer |-> Blank]
    ELSE [index |-> index - 1, buffer |-> data]

undoResult(h, index, data) ==
    IF index <= 0
    THEN [index |-> -1, buffer |-> Blank]
    ELSE [index |-> index - 1,
          buffer |-> IF index <= Len(h) THEN h[index] ELSE data]

\* redo whose guard lets the index step past the last entry
redoResult_over(h, index, data) ==
    IF index > Len(h) - 1
    THEN [index |-> index, buffer |-> data]
    ELSE [index |-> index + 1,
          buffer |-> IF index + 2 <= Len(h) THEN h[index + 2] ELSE data]

redoResult(h, index, data) ==
    IF index >= Len(h) - 1
    THEN [index |-> index, buffer |-> data]
    ELSE [index |-> index + 1,
          buffer |-> IF index + 2 <= Len(h) THEN h[index + 2] ELSE data]

\* ------------------------------------------------------------------ sprite
NoSprite == [width |-> 0, height |-> 0, data |-> <<>>]

isWhite(c) == c[1] = 255 /\ c[2] = 255 /\ c[3] = 255 /\ c[4] = 255

SetMin(S) == CHOOSE m \in S : \A k \in S : m <= k
SetMax(S) == CHOOSE m \in S : \A k \in S : m >= k

\* a bounding box that takes a one-pixel-wide or one-pixel-high drawing for none
getDrawingBoundingBox_strict(data, width, height) ==
    LET drawn == {i \in 1..(width * height) : ~isWhite(data[i])}
        xs == {(i - 1) % width : i \in drawn}
        ys == {(i - 1) \div width : i \in drawn}
        minX == SetMin(xs \cup {width})
        minY == SetMin(ys \cup {height})
        maxX == SetMax(xs \cup {0})
        maxY == SetMax(ys \cup {0})
    IN  IF minX >= maxX \/ minY >= maxY
        THEN [ok |-> FALSE, minX |-> 0, minY |-> 0, maxX |-> 0, maxY |-> 0]
        ELSE [ok |-> TRUE, minX |-> minX, minY |-> minY, maxX |-> maxX, maxY |-> maxY]

\* a bounding box whose minima start at 0 as its maxima do
getDrawingBoundingBox_fromZero(data, width, height) ==
    LET drawn == {i \in 1..(width * height) : ~isWhite(data[i])}
        xs == {(i - 1) % width : i \in drawn}
        ys == {(i - 1) \div width : i \in drawn}
        minX == SetMin(xs \cup {0})
        minY == SetMin(ys \cup {0})
        maxX == SetMax(xs \cup {0})
        maxY == SetMax(ys \cup {0})
    IN  IF drawn = {}
        THEN [ok |-> FALSE, minX |-> 0, minY |-> 0, maxX |-> 0, maxY |-> 0]
        ELSE [ok |-> TRUE, minX |-> minX, minY |-> minY, maxX |-> maxX, maxY |-> maxY]

\* null is the record with ok = FALSE
getDrawingBoundingBox(data, width, height) ==
    LET drawn == {i \in 1..(width * height) : ~isWhite(data[i])}
        xs == {(i - 1) % width : i \in drawn}
        ys == {(i - 1) \div width : i \in drawn}
        minX == SetMin(xs \cup {width})
        minY == SetMin(ys \cup {height})
        maxX == SetMax(xs \cup {0})
        maxY == SetMax(ys \cup {0})
    IN  IF minX > maxX \/ minY > maxY
        THEN [ok |-> FALSE, minX |-> 0, minY |-> 0, maxX |-> 0, maxY |-> 0]
        ELSE [ok |-> TRUE, minX |-> minX, minY |-> minY, maxX |-> maxX, maxY |-> maxY]

hasDrawing(data) == \E i \in 1..Len(data) : ~isWhite(data[i])

\* getImageData(minX, minY, drawWidth, drawHeight) into the offscreen canvas
cropSpriteOn(data, bbox, canvasWidth) ==
    LET w == bbox.maxX - bbox.minX + 1
        h == bbox.maxY - bbox.minY + 1
    IN  [width |-> w, height |-> h,
         data |-> [k \in 1..(w * h) |->
                     data[(bbox.minY + ((k - 1) \div w)) * canvasWidth
                          + bbox.minX + ((k - 1) % w) + 1]]]

cropSprite(data, bbox) == cropSpriteOn(data, bbox, GridW)

\* velocities in half pixels per frame, angular velocities in units of 0.05 rad
RandomVelocity == {[vx |-> 1, vy |-> -1, vr |-> 1], [vx |-> -2, vy |-> 1, vr |-> -1]}
InitVelocity == [vx |-> 8, vy |-> 8, vr |-> 1]

\* a bounce that turns the velocity and leaves the sprite where it went
animateMoveOn_noClamp(pos, vel, imgWidth, imgHeight, canvasWidth, canvasHeight) ==
    LET x0 == pos.x + vel.vx
        y0 == pos.y + vel.vy
        rotation == pos.rotation + vel.vr
        hitL == x0 - imgWidth < 0
        hitR == ~hitL /\ x0 + imgWidth > 2 * canvasWidth
        hitT == y0 - imgHeight < 0
        hitB == ~hitT /\ y0 + imgHeight > 2 * canvasHeight
        vx == IF hitL \/ hitR THEN -vel.vx ELSE vel.vx
        vy == IF hitT \/ hitB THEN -vel.vy ELSE vel.vy
    IN  [pos |-> [x |-> x0, y |-> y0, rotation |-> rotation],
         vel |-> [vx |-> vx, vy |-> vy, vr |-> vel.vr]]

\* a bounce that loses speed and spin
animateMoveOn_damped(pos, vel, imgWidth, imgHeight, canvasWidth, canvasHeight) ==
    LET x0 == pos.x + vel.vx
        y0 == pos.y + vel.vy
        rotation == pos.rotation + vel.vr
        hitL == x0 - imgWidth < 0
        hitR == ~hitL /\ x0 + imgWidth > 2 * canvasWidth
        hitT == y0 - imgHeight < 0
        hitB == ~hitT /\ y0 + imgHeight > 2 * canvasHeight
        x == IF hitL THEN imgWidth ELSE IF hitR THEN 2 * canvasWidth - imgWidth ELSE x0
        y == IF hitT THEN imgHeight ELSE IF hitB THEN 2 * canvasHeight - imgHeight ELSE y0
        vx == IF hitL \/ hitR THEN -(vel.vx \div 2) ELSE vel.vx
        vy == IF hitT \/ hitB THEN -(vel.vy \div 2) ELSE vel.vy
        vr == IF hitL \/ hitR \/ hitT \/ hitB THEN 0 ELSE vel.vr
    IN  [pos |-> [x |-> x, y |-> y, rotation |-> rotation],
         vel |-> [vx |-> vx, vy |-> vy, vr |-> vr]]

\* a bounce that puts the sprite's centre, not its edge, on the boundary
animateMoveOn_centre(pos, vel, imgWidth, imgHeight, canvasWidth, canvasHeight) ==
    LET x0 == pos.x + vel.vx
        y0 == pos.y + vel.vy
        rotation == pos.rotation + vel.vr
        hitL == x0 - imgWidth < 0
        hitR == ~hitL /\ x0 + imgWidth > 2 * canvasWidth
        hitT == y0 - imgHeight < 0
        hitB == ~hitT /\ y0 + imgHeight > 2 * canvasHeight
        x == IF hitL THEN 0 ELSE IF hitR THEN 2 * canvasWidth ELSE x0
        y == IF hitT THEN 0 ELSE IF hitB THEN 2 * canvasHeight ELSE y0
        vx == IF hitL \/ hitR THEN -vel.vx ELSE vel.vx
        vy == IF hitT \/ hitB THEN -vel.vy ELSE vel.vy
    IN  [pos |-> [x |-> x, y |-> y, rotation |-> rotation],
         vel |-> [vx |-> vx, vy |-> vy, vr |-> vel.vr]]

\* one frame of the physics: positions in half pixels, so imgWidth / 2 pixels
\* is imgWidth half pixels and canvas.width is 2 * canvasWidth
animateMoveOn(pos, vel, imgWidth, imgHeight, canvasWidth, canvasHeight) ==
    LET x0 == pos.x + vel.vx
        y0 == pos.y + vel.vy
        rotation == pos.rotation + vel.vr
        hitL == x0 - imgWidth < 0
        hitR == ~hitL /\ x0 + imgWidth > 2 * canvasWidth
        hitT == y0 - imgHeight < 0
        hitB == ~hitT /\ y0 + imgHeight > 2 * canvasHeight
        x == IF hitL THEN imgWidth ELSE IF hitR THEN 2 * canvasWidth - imgWidth ELSE x0
        y == IF hitT THEN imgHeight ELSE IF hitB THEN 2 * canvasHeight - imgHeight ELSE y0
        vx == IF hitL \/ hitR THEN -vel.vx ELSE vel.vx
        vy == IF hitT \/ hitB THEN -vel.vy ELSE vel.vy
    IN  [pos |-> [x |-> x, y |-> y, rotation |-> rotation],
         vel |-> [vx |-> vx, vy |-> vy, vr |-> vel.vr]]

animateMove(pos, vel, imgWidth, imgHeight) ==
    animateMoveOn(pos, vel, imgWidth, imgHeight, GridW, GridH)

\* white background, then the sprite with its centre at pos; the raster of
\* the rotated image is the canvas's, the model places it unrotated on the
\* pixel grid
drawSpriteOn(sprite, pos, canvasWidth, canvasHeight) ==
    LET left == (pos.x - sprite.width) \div 2
        top == (pos.y - sprite.height) \div 2
    IN  [i \in 1..(canvasWidth * canvasHeight) |->
           LET sx == ((i - 1) % canvasWidth) - left
               sy == ((i - 1) \div canvasWidth) - top
           IN  IF sx >= 0 /\ sx < sprite.width /\ sy >= 0 /\ sy < sprite.height
               THEN sprite.data[(sy * sprite.width) + sx + 1]
               ELSE White]

drawSprite(sprite, pos) == drawSpriteOn(sprite, pos, GridW, GridH)

\* ------------------------------------------------------------------- state
\* Handlers, effects and frame callbacks run one at a time.  A change of
\* animating made in a click handler is rendered, and its effect or cleanup
\* run, before the browser takes the next event or frame (createRoot flushes
\* the effects of a discrete event synchronously): commit says which is owed,
\* and nothing else runs until it is "idle" again.
VARIABLES
    buffer,        \* pixels of the visible canvas (canvasRef)
    history,       \* historyRef.current
    historyIndex,  \* historyIndexRef.current
    isDrawing, position, animating, color, lineWidth, mode,
    offscreen,     \* offscreenCanvasRef.current
    imgPos,        \* imgPosRef.current
    velocity,      \* velocityRef.current
    effect,        \* closure of the animation effect: imgWidth, imgHeight, frameId
    rafPending,    \* frame requests not yet run or cancelled
    rafNext,       \* next handle requestAnimationFrame returns
    commit,        \* effect work React owes for the last change of animating
    synth,         \* window.speechSynthesis is available
    utterance,     \* phrase this step handed to synth.speak, 0 when it spoke none
    obs            \* observer: which operations ran, and what the canvas held

vars == <<buffer, history, historyIndex, isDrawing, position, animating, color,
          lineWidth, mode, offscreen, imgPos, velocity, effect, rafPending,
          rafNext, commit, synth, utterance, obs>>

paintVars == <<buffer, history, historyIndex, isDrawing, position>>
toolVars == <<color, lineWidth, mode>>
animVars == <<animating, offscreen, imgPos, velocity, effect, rafPending,
              rafNext, commit>>

\* the observer keeps the last MaxHistory canvases that were snapshotted
LastSnaps(q) == IF Len(q) > MaxHistory THEN Tail(q) ELSE q

ObsInit ==
    [last |-> "other", act |-> "none", pre |-> Blank, phase |-> "draw",
     n |-> 0, u |-> 0, r |-> 0, final |-> Blank, snaps |-> <<Blank>>,
     strokes |-> 0, draws |-> 0, tools |-> 0]

\* the observer forgets what no longer belongs to the scenario it follows
ObsNorm(o) ==
    [o EXCEPT !.pre = IF o.act = "none" THEN Blank ELSE @,
              !.n = IF o.phase = "off" THEN 0 ELSE @,
              !.u = IF o.phase = "off" THEN 0 ELSE @,
              !.r = IF o.phase = "off" THEN 0 ELSE @,
              !.final = IF o.phase \in {"off", "draw"} THEN Blank ELSE @,
              !.snaps = IF o.phase = "draw" THEN @ ELSE <<>>]

\* the observer after an operation that is neither a stroke, an undo nor a redo
ObsOther(name, endsScenario) ==
    ObsNorm([obs EXCEPT
        !.last = IF name \in {"begin", "draw", "stop"} THEN name ELSE "other",
        !.act = IF name \in {"tool", "mode"} /\ @ # "undone" THEN @ ELSE "none",
        !.phase = IF endsScenario THEN "off" ELSE @,
        !.tools = IF name = "tool" THEN @ + 1 ELSE @])

Init ==
    /\ buffer = Blank
    /\ history = <<Blank>>
    /\ historyIndex = 0
    /\ isDrawing = FALSE
    /\ position = [x |-> 0, y |-> 0]
    /\ animating = FALSE
    /\ color = StrBlack
    /\ lineWidth = 2
    /\ mode = "pen"
    /\ offscreen = NoSprite
    /\ imgPos = [x |-> 0, y |-> 0, rotation |-> 0]
    /\ velocity = InitVelocity
    /\ effect = [imgWidth |-> 0, imgHeight |-> 0, frameId |-> 0]
    /\ rafPending = {}
    /\ rafNext = 1
    /\ commit = "idle"
    /\ synth \in BOOLEAN
    /\ utterance = 0
    /\ obs = ObsInit

\* ------------------------------------------------------------ Paint Engine
\* "if (animating) return" of startDrawing and draw
paintLocked_never(anim) == FALSE

paintLocked(anim) == anim

startDrawing(p, counted) ==
    /\ commit = "idle"
    /\ counted => obs.strokes < MaxStrokes
    /\ IF paintLocked(animating)
       THEN /\ obs' = ObsOther("begin", FALSE)
            /\ UNCHANGED paintVars
       ELSE LET saved == saveHistory(history, historyIndex, buffer)
            IN  /\ history' = saved.history
                /\ historyIndex' = saved.index
                /\ IF mode = "fill"
                   THEN /\ buffer' = fillFlood(buffer, p.x, p.y, hexToRgba(color))
                        /\ UNCHANGED <<isDrawing, position>>
                   ELSE /\ position' = p
                        /\ isDrawing' = TRUE
                        /\ UNCHANGED buffer
                /\ obs' = ObsNorm([obs EXCEPT
                       !.last = IF @ = "undo" THEN "rebegin" ELSE "begin",
                       !.act = IF mode = "fill" THEN "done" ELSE "open",
                       !.pre = buffer,
                       !.phase = IF @ = "draw" /\ obs.n < LongStrokes
                                 THEN "draw" ELSE "off",
                       !.n = @ + 1,
                       !.snaps = LastSnaps(Append(@, buffer)),
                       !.strokes = IF counted THEN @ + 1 ELSE @])
    /\ utterance' = 0
    /\ UNCHANGED <<toolVars, animVars, synth>>

draw(p, counted) ==
    /\ commit = "idle"
    /\ counted => obs.draws < MaxDraws
    /\ IF ~isDrawing \/ paintLocked(animating)
       THEN /\ obs' = ObsOther("draw", FALSE)
            /\ UNCHANGED paintVars
       ELSE /\ buffer' = IF mode = "eraser"
                         THEN strokeLine(buffer, position, p, lineWidth * 3,
                                         strokeStyleRgba(StrWhite))
                         ELSE strokeLine(buffer, position, p, lineWidth,
                                         strokeStyleRgba(color))
            /\ position' = p
            /\ obs' = ObsNorm([obs EXCEPT
                   !.last = "draw",
                   !.act = IF @ = "open" THEN "open" ELSE "none",
                   !.phase = IF @ = "draw" THEN "draw" ELSE "off",
                   !.draws = IF counted THEN @ + 1 ELSE @])
            /\ UNCHANGED <<history, historyIndex, isDrawing>>
    /\ utterance' = 0
    /\ UNCHANGED <<toolVars, animVars, synth>>

stopDrawing ==
    /\ commit = "idle"
    /\ isDrawing' = FALSE
    /\ obs' = ObsNorm([obs EXCEPT
           !.last = "other",
           !.act = IF @ = "open" /\ isDrawing THEN "done"
                   ELSE IF @ = "done" THEN "done" ELSE "none"])
    /\ utterance' = 0
    /\ UNCHANGED <<buffer, history, historyIndex, position, toolVars, animVars, synth>>

\* ------------------------------------------------------ Raster Canvas Store
\* the undo and redo buttons are disabled while animating; their test of the
\* index is made at render time and refs do not re-render, so the handlers
\* run at any index
undo ==
    /\ commit = "idle"
    /\ ~animating
    /\ LET res == undoResult(history, historyIndex, buffer)
       IN  /\ historyIndex' = res.index
           /\ buffer' = res.buffer
    /\ obs' = ObsNorm([obs EXCEPT
           !.last = "undo",
           !.act = IF @ = "done" THEN "undone" ELSE "none",
           !.phase = IF @ \in {"draw", "undo"} /\ obs.u < obs.n /\ ~isDrawing
                     THEN "undo" ELSE "off",
           !.u = @ + 1,
           !.final = IF obs.phase = "draw" THEN buffer ELSE @])
    /\ utterance' = 0
    /\ UNCHANGED <<history, isDrawing, position, toolVars, animVars, synth>>

redo ==
    /\ commit = "idle"
    /\ ~animating
    /\ LET res == redoResult(history, historyIndex, buffer)
       IN  /\ historyIndex' = res.index
           /\ buffer' = res.buffer
    /\ obs' = ObsNorm([obs EXCEPT
           !.last = "other",
           !.act = "none",
           !.phase = IF @ \in {"undo", "redo"} /\ obs.u = obs.n /\ obs.r < obs.n
                     THEN "redo" ELSE "off",
           !.r = @ + 1])
    /\ utterance' = 0
    /\ UNCHANGED <<history, isDrawing, position, toolVars, animVars, synth>>

\* --------------------------------------------------------------- ToolState
setColor(c) ==
    /\ commit = "idle"
    /\ obs.tools < MaxTools
    /\ ~animating /\ mode # "eraser"
    /\ color' = c
    /\ obs' = ObsOther("tool", FALSE)
    /\ utterance' = 0
    /\ UNCHANGED <<paintVars, lineWidth, mode, animVars, synth>>

setLineWidth(w) ==
    /\ commit = "idle"
    /\ obs.tools < MaxTools
    /\ ~animating
    /\ lineWidth' = w
    /\ obs' = ObsOther("tool", FALSE)
    /\ utterance' = 0
    /\ UNCHANGED <<paintVars, color, mode, animVars, synth>>

setMode(m, counted) ==
    /\ commit = "idle"
    /\ counted => obs.tools < MaxTools
    /\ ~animating
    /\ mode' = m
    /\ obs' = ObsOther(IF counted THEN "tool" ELSE "mode", FALSE)
    /\ utterance' = 0
    /\ UNCHANGED <<paintVars, color, lineWidth, animVars, synth>>

\* ---------------------------------------------------------- Sprite Animator
\* velocityRef after speakRandom: unchanged when speech is unavailable
speakRandomVelocity(available, rolled, old) ==
    IF available THEN rolled ELSE old

\* startAnimation on a canvas of any size; velocities are the values the
\* random draws may give, seen is the observer after the call
startAnimationOn(canvasWidth, canvasHeight, velocities, seen) ==
    /\ commit = "idle"
    /\ ~animating
    /\ LET bbox == getDrawingBoundingBox(buffer, canvasWidth, canvasHeight)
       IN  IF ~bbox.ok
           THEN /\ utterance' = 0
                /\ UNCHANGED animVars
           ELSE /\ offscreen' = cropSpriteOn(buffer, bbox, canvasWidth)
                /\ imgPos' = [x |-> canvasWidth, y |-> canvasHeight, rotation |-> 0]
                /\ \E first \in velocities, rolled \in velocities :
                       velocity' = speakRandomVelocity(synth, rolled, first)
                /\ animating' = TRUE
                /\ IF synth
                   THEN utterance' \in 1..NumPhrases
                   ELSE utterance' = 0
                /\ commit' = "mount"
                /\ UNCHANGED <<effect, rafPending, rafNext>>
    /\ obs' = seen
    /\ UNCHANGED <<paintVars, toolVars, synth>>

startAnimation ==
    /\ rafNext < MaxFrames
    /\ startAnimationOn(GridW, GridH, RandomVelocity, ObsOther("start", TRUE))

speakRandomOn(velocities, seen) ==
    /\ commit = "idle"
    /\ animating
    /\ IF synth
       THEN /\ utterance' \in 1..NumPhrases
            /\ \E rolled \in velocities :
                   velocity' = speakRandomVelocity(synth, rolled, velocity)
       ELSE /\ utterance' = 0
            /\ UNCHANGED velocity
    /\ obs' = seen
    /\ UNCHANGED <<paintVars, toolVars, synth, animating, offscreen, imgPos,
                   effect, rafPending, rafNext, commit>>

speakRandom == speakRandomOn(RandomVelocity, ObsOther("speak", TRUE))

stopAnimationOn(canvasWidth, canvasHeight, seen) ==
    /\ commit = "idle"
    /\ animating
    /\ animating' = FALSE
    /\ buffer' = [i \in 1..(canvasWidth * canvasHeight) |-> White]
    /\ history' = <<>>
    /\ historyIndex' = -1
    /\ commit' = "cleanup"
    /\ obs' = seen
    /\ utterance' = 0
    /\ UNCHANGED <<isDrawing, position, toolVars, synth, offscreen, imgPos,
                   velocity, effect, rafPending, rafNext>>

stopAnimation == stopAnimationOn(GridW, GridH, ObsOther("stop", TRUE))

\* animate(): one frame, then the request for the next one
animateOn(imgWidth, imgHeight, canvasWidth, canvasHeight) ==
    LET moved == animateMoveOn(imgPos, velocity, imgWidth, imgHeight,
                               canvasWidth, canvasHeight)
    IN  /\ imgPos' = moved.pos
        /\ velocity' = moved.vel
        /\ buffer' = drawSpriteOn(offscreen, moved.pos, canvasWidth, canvasHeight)
        /\ rafNext' = rafNext + 1

animate(imgWidth, imgHeight) == animateOn(imgWidth, imgHeight, GridW, GridH)

\* the effect of [animating], run when animating has become true
effectMountOn(canvasWidth, canvasHeight, seen) ==
    /\ commit = "mount"
    /\ animateOn(offscreen.width, offscreen.height, canvasWidth, canvasHeight)
    /\ effect' = [imgWidth |-> offscreen.width, imgHeight |-> offscreen.height,
                  frameId |-> rafNext]
    /\ rafPending' = rafPending \cup {rafNext}
    /\ commit' = "idle"
    /\ obs' = seen
    /\ utterance' = 0
    /\ UNCHANGED <<history, historyIndex, isDrawing, position, toolVars, synth,
                   animating, offscreen>>

effectMount == effectMountOn(GridW, GridH, ObsOther("mount", TRUE))

\* a cleanup that cancels nothing
cancelAnimationFrame_none(pending, frameId) == pending

\* cancelAnimationFrame(frameId)
cancelAnimationFrame(pending, frameId) == pending \ {frameId}

\* the cleanup of that effect, run when animating has become false
effectCleanupOn(seen) ==
    /\ commit = "cleanup"
    /\ rafPending' = cancelAnimationFrame(rafPending, effect.frameId)
    /\ commit' = "idle"
    /\ obs' = seen
    /\ utterance' = 0
    /\ UNCHANGED <<paintVars, toolVars, synth, animating, offscreen, imgPos,
                   velocity, effect, rafNext>>

effectCleanup == effectCleanupOn(ObsOther("cleanup", TRUE))

\* the browser runs a requested frame callback
frameOn(id, canvasWidth, canvasHeight, seen) ==
    /\ commit = "idle"
    /\ id \in rafPending
    /\ animateOn(effect.imgWidth, effect.imgHeight, canvasWidth, canvasHeight)
    /\ effect' = [effect EXCEPT !.frameId = rafNext]
    /\ rafPending' = (rafPending \ {id}) \cup {rafNext}
    /\ obs' = seen
    /\ utterance' = 0
    /\ UNCHANGED <<history, historyIndex, isDrawing, position, toolVars, synth,
                   animating, offscreen, commit>>

frame(id) ==
    /\ rafNext <= MaxFrames
    /\ frameOn(id, GridW, GridH, ObsOther("frame", TRUE))

\* ---------------------------------------------------------- specifications
PaintNext ==
    \/ \E p \in Pointer : startDrawing(p, TRUE)
    \/ \E p \in Pointer : draw(p, TRUE)
    \/ stopDrawing
    \/ undo
    \/ redo

ToolNext ==
    \/ \E c \in Palette : setColor(c)
    \/ \E w \in LineWidths : setLineWidth(w)
    \/ \E m \in Modes : setMode(m, TRUE)

AnimNext ==
    \/ startAnimation
    \/ speakRandom
    \/ stopAnimation
    \/ effectMount
    \/ effectCleanup
    \/ \E id \in rafPending : frame(id)

Next == PaintNext \/ ToolNext \/ AnimNext

Spec == Init /\ [][Next]_vars

\* long runs: every stroke starts and moves at the canvas origin
Origin == [x |-> 0, y |-> 0]

LongPaintNext ==
    \/ startDrawing(Origin, FALSE)
    \/ draw(Origin, FALSE)
    \/ stopDrawing
    \/ undo
    \/ redo

LongNext == LongPaintNext \/ AnimNext

\* strokes at the origin in any mode, with the whole animation
AnimPaintNext ==
    \/ startDrawing(Origin, TRUE)
    \/ draw(Origin, FALSE)
    \/ stopDrawing
    \/ undo
    \/ redo
    \/ \E m \in Modes : setMode(m, FALSE)

SpecAnim == Init /\ [][AnimPaintNext \/ AnimNext]_vars

\* a browser without speech synthesis
InitLong == Init /\ synth = FALSE

SpecLong == InitLong /\ [][LongNext]_vars

\* ------------------------------------------------------------------ claims
\* what k consecutive undo() calls leave on the canvas
RECURSIVE undoTimes(_, _, _, _)
undoTimes(h, index, data, k) ==
    IF k = 0 THEN data
    ELSE LET res == undoResult(h, index, data)
         IN  undoTimes(h, res.index, res.buffer, k - 1)

\* C1: an undo() right after a completed stroke or fill puts back the canvas
\* as it was just before that action's beginStroke.
C1_UndoRestoresCheckpoint ==
    obs.act = "undone" => buffer = obs.pre

\* C2: N strokes or fills from startup (1 <= N <= 19), N undo() calls, then
\* N redo() calls leave the canvas as it was after the N-th action.
C2_RedoReproducesFinal ==
    (obs.phase = "redo" /\ obs.r = obs.n /\ obs.n <= MaxHistory - 1)
        => buffer = obs.final

\* C3: N strokes or fills from startup (N <= 19) followed by N undo() calls
\* leave the canvas all white.
C3_UndoAllIsBlank ==
    (obs.phase = "undo" /\ obs.u = obs.n /\ obs.n <= MaxHistory - 1)
        => buffer = Blank

C3_Witness ==
    /\ obs.phase = "undo"
    /\ obs.u = obs.n
    /\ obs.n = MaxHistory - 1
    /\ obs.final # Blank

\* C4: a beginStroke that follows an undo() discards every entry beyond the
\* index, appends the snapshot, leaves the index on the last entry, and
\* redo() then changes neither the canvas nor the index.
C4_RedoInvalidated ==
    [][(obs.last = "undo" /\ obs'.last = "rebegin") =>
          /\ historyIndex' = Len(history') - 1
          /\ Len(history') = historyIndex + 2
          /\ SubSeq(history', 1, historyIndex + 1) = SubSeq(history, 1, historyIndex + 1)
          /\ history'[Len(history')] = buffer
          /\ redoResult(history', historyIndex', buffer')
                 = [index |-> historyIndex', buffer |-> buffer']]_vars

\* the stroke came after an undo to the -1 sentinel of a non-empty stack
C4_Witness ==
    /\ obs.last = "rebegin"
    /\ Len(history) = 1
    /\ historyIndex = 0
    /\ isDrawing

\* C5: the history stack never holds more than 20 snapshots.
C5_HistoryBounded ==
    Len(history) <= MaxHistory

C5_Witness ==
    /\ Len(history) = MaxHistory
    /\ obs.phase = "draw"
    /\ obs.n > MaxHistory

\* C6: after more than 20 snapshot pushes with no undo in between, each of
\* the 20 most recent snapshotted canvases comes back after some number of
\* consecutive undo() calls.
C6_RecentSnapshotsUndoable ==
    (obs.phase = "draw" /\ obs.n > MaxHistory) =>
        \A j \in 1..Len(obs.snaps) :
            \E k \in 1..(MaxHistory + 1) :
                undoTimes(history, historyIndex, buffer, k) = obs.snaps[j]

\* C7 as stated: a non-empty stack has 0 <= index < length.
C7_IndexWithinStack ==
    Len(history) > 0 => (0 <= historyIndex /\ historyIndex < Len(history))

\* C7 amended: -1 <= index < length in every state; -1 is the sentinel of an
\* empty stack and of an undo() at index <= 0.
C7_IndexOrSentinel ==
    -1 <= historyIndex /\ historyIndex < Len(history)

C7_Witness ==
    /\ obs.last = "undo"
    /\ Len(history) > 1
    /\ historyIndex = -1

\* C8: while animating, a startDrawing or draw call changes neither the
\* canvas, the history, the index nor the stroke session.
C8_LockedWhileAnimating ==
    [][(animating /\ obs'.last \in {"begin", "rebegin", "draw"}) =>
          UNCHANGED <<buffer, history, historyIndex, isDrawing, position>>]_vars

\* a draw call arrived with a stroke session open and the animation running
C8_Witness ==
    /\ animating
    /\ isDrawing
    /\ obs.last = "draw"

\* C9: while the animation is stopped no frame callback runs: the transform
\* does not move and no frame is drawn or requested.
C9_NoFrameAfterStop ==
    [][(~animating /\ ~animating') =>
          /\ rafNext' = rafNext
          /\ imgPos' = imgPos
          /\ velocity' = velocity]_vars

\* stopped and cleaned up after frames had been requested
C9_Witness ==
    /\ ~animating
    /\ commit = "idle"
    /\ rafNext > 1
    /\ rafPending = {}

\* C10: right after stopAnimation() the store is as after startup: not
\* animating, all white, history seeded with one blank snapshot at index 0.
C10_StopEqualsStartup ==
    obs.last = "stop" =>
        /\ ~animating
        /\ buffer = Blank
        /\ history = <<Blank>>
        /\ historyIndex = 0

\* ------------------------------------------------- one flood fill, any canvas
\* The canvas holds any picture in two colors; then fillFlood is called once
\* with any seed, inside the canvas or one pixel outside it, and any color.
FillPixels == {White, Black}
FillColors == {White, Black, hexToRgba(StrRed)}
FillSeeds == (-1..FillW) \X (-1..FillH)
FillBlank == [i \in 1..(FillW * FillH) |-> White]

InitFill ==
    /\ buffer \in [1..(FillW * FillH) -> FillPixels]
    /\ history = <<FillBlank, FillBlank>>
    /\ historyIndex = 1
    /\ isDrawing = FALSE
    /\ position = [x |-> 0, y |-> 0]
    /\ animating = FALSE
    /\ color = StrRed
    /\ lineWidth = 2
    /\ mode = "fill"
    /\ offscreen = NoSprite
    /\ imgPos = [x |-> 0, y |-> 0, rotation |-> 0]
    /\ velocity = InitVelocity
    /\ effect = [imgWidth |-> 0, imgHeight |-> 0, frameId |-> 0]
    /\ rafPending = {}
    /\ rafNext = 1
    /\ commit = "idle"
    /\ synth = TRUE
    /\ utterance = 0
    /\ obs = [last |-> "none"]

\* fillFlood(ctx, x, y, fillColor); the observer keeps the call and its loop
fillFloodCall(x, y, fillColor) ==
    /\ obs.last = "none"
    /\ LET run == fillFloodOn(buffer, FillW, FillH, x, y, fillColor)
       IN  /\ buffer' = run.data
           /\ obs' = [last |-> "fill", pre |-> buffer, x |-> x, y |-> y,
                      fillColor |-> fillColor, writes |-> run.writes,
                      steps |-> run.steps]
    /\ UNCHANGED <<history, historyIndex, isDrawing, position, toolVars,
                   animVars, synth, utterance>>

FillNext == \E s \in FillSeeds, c \in FillColors : fillFloodCall(s[1], s[2], c)

SpecFill == InitFill /\ [][FillNext]_vars

\* the seed lies on the canvas
SeedInside(x, y) == x >= 0 /\ x < FillW /\ y >= 0 /\ y < FillH

\* pixels of a FillW x FillH canvas joined to the seed by steps to the left,
\* right, upper or lower neighbour through pixels of the seed's color
RECURSIVE Grow4(_, _)
Grow4(data, S) ==
    LET seedColor == data[(CHOOSE p \in S : TRUE)[2] * FillW + (CHOOSE p \in S : TRUE)[1] + 1]
        T == S \cup {q \in (0..(FillW - 1)) \X (0..(FillH - 1)) :
                       /\ data[q[2] * FillW + q[1] + 1] = seedColor
                       /\ \E p \in S :
                            \/ p[1] = q[1] /\ (p[2] - q[2]) \in {-1, 1}
                            \/ p[2] = q[2] /\ (p[1] - q[1]) \in {-1, 1}}
    IN  IF T = S THEN S ELSE Grow4(data, T)

Region4(data, x, y) == Grow4(data, {<<x, y>>})

ReferenceFill(data, x, y, fillColor) ==
    [i \in 1..(FillW * FillH) |->
        IF <<(i - 1) % FillW, (i - 1) \div FillW>> \in Region4(data, x, y)
        THEN fillColor ELSE data[i]]

\* C11: a flood fill whose seed lies on the canvas and has another color than
\* the fill color leaves the canvas equal to the reference fill: the pixels
\* 4-connected to the seed through the seed's color have the fill color, all
\* others are as before.
C11_FillEqualsReference ==
    (/\ obs.last = "fill"
     /\ SeedInside(obs.x, obs.y)
     /\ obs.pre[obs.y * FillW + obs.x + 1] # obs.fillColor)
    => buffer = ReferenceFill(obs.pre, obs.x, obs.y, obs.fillColor)

\* a fill that stopped at a diagonal neighbour of the seed's color and went
\* around a pixel of another color
C11_Witness ==
    /\ obs.last = "fill"
    /\ SeedInside(obs.x, obs.y)
    /\ obs.pre[obs.y * FillW + obs.x + 1] # obs.fillColor
    /\ Cardinality(Region4(obs.pre, obs.x, obs.y)) >= 3
    /\ \E i \in 1..(FillW * FillH) :
          /\ obs.pre[i] = obs.pre[obs.y * FillW + obs.x + 1]
          /\ buffer[i] = obs.pre[i]
    /\ buffer # obs.pre

\* C12: a flood fill whose fill color is the seed pixel's color leaves every
\* pixel as it was, and so does a flood fill whose seed lies outside the
\* canvas.
C12_FillNoOp ==
    (/\ obs.last = "fill"
     /\ \/ ~SeedInside(obs.x, obs.y)
        \/ obs.pre[obs.y * FillW + obs.x + 1] = obs.fillColor)
    => buffer = obs.pre

\* a fill with the seed pixel's own color, next to a pixel of another color
C12_Witness ==
    /\ obs.last = "fill"
    /\ SeedInside(obs.x, obs.y)
    /\ obs.pre[obs.y * FillW + obs.x + 1] = obs.fillColor
    /\ obs.x + 1 < FillW
    /\ obs.pre[obs.y * FillW + obs.x + 2] # obs.fillColor
    /\ obs.steps = 0

\* pixel indices a sequence of writes names
WrittenSet(writes) == {writes[k] : k \in 1..Len(writes)}

\* C18: a flood fill ends after at most one queue item for the seed and four
\* for each pixel it wrote; no pixel is written twice and none outside the
\* seed's 4-connected region of the seed's color; and when the seed lies on
\* the canvas and has another color than the fill color, every pixel of that
\* region is written.
C18_FillWritesOnce ==
    obs.last = "fill" =>
       /\ obs.steps <= 1 + 4 * Len(obs.writes)
       /\ Len(obs.writes) <= FillW * FillH
       /\ Cardinality(WrittenSet(obs.writes)) = Len(obs.writes)
       /\ SeedInside(obs.x, obs.y) =>
             \A i \in WrittenSet(obs.writes) :
                <<i % FillW, i \div FillW>> \in Region4(obs.pre, obs.x, obs.y)
       /\ ~SeedInside(obs.x, obs.y) => obs.writes = <<>>
       /\ (SeedInside(obs.x, obs.y) /\ obs.pre[obs.y * FillW + obs.x + 1] # obs.fillColor) =>
             /\ WrittenSet(obs.writes) =
                   {p[2] * FillW + p[1] : p \in Region4(obs.pre, obs.x, obs.y)}
             /\ obs.steps = 1 + 4 * Len(obs.writes)

\* a fill that wrote a region of four or more pixels and left the others alone
C18_Witness ==
    /\ obs.last = "fill"
    /\ Len(obs.writes) >= 4
    /\ Len(obs.writes) < FillW * FillH
    /\ obs.steps = 1 + 4 * Len(obs.writes)

\* ------------------------------------------- one startAnimation, any picture
\* the state before the animation is started, with one of the pictures on a
\* FillW x FillH canvas
InitSprite(pictures) ==
    /\ buffer \in pictures
    /\ history = <<FillBlank, FillBlank>>
    /\ historyIndex = 1
    /\ isDrawing = FALSE
    /\ position = [x |-> 0, y |-> 0]
    /\ animating = FALSE
    /\ color = StrBlack
    /\ lineWidth = 2
    /\ mode = "pen"
    /\ offscreen = NoSprite
    /\ imgPos = [x |-> 0, y |-> 0, rotation |-> 0]
    /\ velocity = InitVelocity
    /\ effect = [imgWidth |-> 0, imgHeight |-> 0, frameId |-> 0]
    /\ rafPending = {}
    /\ rafNext = 1
    /\ commit = "idle"
    /\ synth \in BOOLEAN
    /\ utterance = 0
    /\ obs = [last |-> "none"]

InitBox == InitSprite([1..(FillW * FillH) -> FillPixels])

BoxNext ==
    /\ obs.last = "none"
    /\ startAnimationOn(FillW, FillH, RandomVelocity, [last |-> "start"])

SpecBox == InitBox /\ [][BoxNext]_vars

\* C14: startAnimation makes animating true exactly when the canvas holds a
\* pixel that is not pure opaque white; on an all-white canvas it is a no-op:
\* animating stays false, painting stays unlocked, no sprite exists, position
\* and velocity are as before and no phrase is announced.
C14_StartIffContent ==
    obs.last = "start" =>
       /\ animating <=> hasDrawing(buffer)
       /\ hasDrawing(buffer) <=> (\E i \in 1..(FillW * FillH) : buffer[i] # White)
       /\ buffer = FillBlank =>
             /\ ~animating
             /\ ~paintLocked(animating)
             /\ offscreen = NoSprite
             /\ imgPos = [x |-> 0, y |-> 0, rotation |-> 0]
             /\ velocity = InitVelocity
             /\ utterance = 0
             /\ commit = "idle"

\* startAnimation was called on the all-white canvas, with speech available
C14_Witness ==
    /\ obs.last = "start"
    /\ buffer = FillBlank
    /\ synth
    /\ ~animating

\* columns and rows of a FillW x FillH picture that hold a pixel that is not
\* pure opaque white
DrawnColumns(data) ==
    {c \in 0..(FillW - 1) : \E r \in 0..(FillH - 1) : data[r * FillW + c + 1] # White}
DrawnRows(data) ==
    {r \in 0..(FillH - 1) : \E c \in 0..(FillW - 1) : data[r * FillW + c + 1] # White}

\* the columns, or rows, from the first to the last of a set
Between(S) == {k \in 0..(FillW + FillH) : \E a \in S, b \in S : a <= k /\ k <= b}

\* C15: the sprite startAnimation makes is as wide as the span of columns
\* from the first to the last drawn one and as high as the span of rows from
\* the first to the last drawn one, and holds the canvas's pixels of that
\* rectangle, so its first and last column and row each hold a drawn pixel.
C15_SpriteIsTightBox ==
    (obs.last = "start" /\ animating) =>
       LET cols == Between(DrawnColumns(buffer))
           rows == Between(DrawnRows(buffer))
           minX == CHOOSE c \in cols : \A d \in cols : c <= d
           minY == CHOOSE r \in rows : \A d \in rows : r <= d
       IN  /\ offscreen.width = Cardinality(cols)
           /\ offscreen.height = Cardinality(rows)
           /\ Len(offscreen.data) = offscreen.width * offscreen.height
           /\ \A sx \in 0..(offscreen.width - 1), sy \in 0..(offscreen.height - 1) :
                 offscreen.data[sy * offscreen.width + sx + 1]
                    = buffer[(minY + sy) * FillW + minX + sx + 1]
           /\ \E sy \in 0..(offscreen.height - 1) :
                 offscreen.data[sy * offscreen.width + 1] # White
           /\ \E sy \in 0..(offscreen.height - 1) :
                 offscreen.data[sy * offscreen.width + offscreen.width] # White
           /\ \E sx \in 0..(offscreen.width - 1) :
                 offscreen.data[sx + 1] # White
           /\ \E sx \in 0..(offscreen.width - 1) :
                 offscreen.data[(offscreen.height - 1) * offscreen.width + sx + 1] # White

\* a sprite cut from a drawing that does not touch column 0, reaches the last
\* column and holds a white pixel
C15_Witness ==
    /\ obs.last = "start"
    /\ animating
    /\ 0 \notin DrawnColumns(buffer)
    /\ offscreen.width = 2
    /\ \E k \in 1..Len(offscreen.data) : offscreen.data[k] = White

\* --------------------------------------------- one animation, any rectangle
\* From a filled rectangle of any size anywhere on the canvas: startAnimation,
\* the frames of the animation with phrases announced in between, and
\* stopAnimation.
PhysVelocity == [vx : {-3, 2}, vy : {-2, 1}, vr : {-1, 2}]

RectPictures ==
    {[i \in 1..(FillW * FillH) |->
         IF /\ (i - 1) % FillW >= x1 /\ (i - 1) % FillW <= x2
            /\ (i - 1) \div FillW >= y1 /\ (i - 1) \div FillW <= y2
         THEN Black ELSE White] :
       x1 \in 0..(FillW - 1), x2 \in 0..(FillW - 1),
       y1 \in 0..(FillH - 1), y2 \in 0..(FillH - 1)}

InitPhys == InitSprite(RectPictures)

PhysNext ==
    \/ startAnimationOn(FillW, FillH, PhysVelocity, [last |-> "start"])
    \/ effectMountOn(FillW, FillH, [last |-> "mount"])
    \/ \E id \in rafPending :
          /\ rafNext <= PhysFrames
          /\ frameOn(id, FillW, FillH, [last |-> "frame"])
    \/ speakRandomOn(PhysVelocity, [last |-> "speak"])
    \/ stopAnimationOn(FillW, FillH, [last |-> "stop"])
    \/ effectCleanupOn([last |-> "cleanup"])

SpecPhys == InitPhys /\ [][PhysNext]_vars

\* C13: in a frame update, on each axis, when the old position plus the
\* velocity puts the sprite's leading edge beyond a boundary of the canvas,
\* the update negates that axis's velocity and leaves the sprite's edge on
\* that side exactly on the boundary (positions in half pixels).
C13_BounceReflects ==
    [][obs'.last \in {"mount", "frame"} =>
          LET w == offscreen.width
              h == offscreen.height
              x0 == imgPos.x + velocity.vx
              y0 == imgPos.y + velocity.vy
          IN  /\ x0 - w < 0 =>
                    velocity'.vx = -velocity.vx /\ imgPos'.x - w = 0
              /\ x0 + w > 2 * FillW =>
                    velocity'.vx = -velocity.vx /\ imgPos'.x + w = 2 * FillW
              /\ y0 - h < 0 =>
                    velocity'.vy = -velocity.vy /\ imgPos'.y - h = 0
              /\ y0 + h > 2 * FillH =>
                    velocity'.vy = -velocity.vy /\ imgPos'.y + h = 2 * FillH]_vars

\* a frame has just put a sprite narrower than the canvas on the right
\* boundary and turned it back
C13_Witness ==
    /\ obs.last = "frame"
    /\ animating
    /\ offscreen.width < FillW
    /\ imgPos.x + offscreen.width = 2 * FillW
    /\ velocity.vx < 0

Abs(v) == IF v < 0 THEN -v ELSE v

\* C19: a frame update leaves |vx|, |vy| and vr as they were and adds vr to
\* the rotation, which is never clamped; in any step that changes |vx|, |vy|
\* or vr the operation is startAnimation or speakRandom.
C19_FrameKeepsSpeed ==
    [][/\ obs'.last \in {"mount", "frame"} =>
             /\ Abs(velocity'.vx) = Abs(velocity.vx)
             /\ Abs(velocity'.vy) = Abs(velocity.vy)
             /\ velocity'.vr = velocity.vr
             /\ imgPos'.rotation = imgPos.rotation + velocity.vr
       /\ (\/ Abs(velocity'.vx) # Abs(velocity.vx)
           \/ Abs(velocity'.vy) # Abs(velocity.vy)
           \/ velocity'.vr # velocity.vr) =>
             obs'.last \in {"start", "speak"}]_vars

\* after a bounce on each axis the sprite has turned by more than any one
\* frame's angular velocity
C19_Witness ==
    /\ obs.last = "frame"
    /\ animating
    /\ velocity.vx = 3
    /\ velocity.vy = 2
    /\ Abs(imgPos.rotation) >= 3

\* C20: while animating the sprite lies inside the canvas, whatever its size:
\* its centre is at least half its width from the left and right boundaries
\* and half its height from the upper and lower ones (positions in half
\* pixels).
C20_SpriteInside ==
    animating =>
       /\ offscreen.width <= imgPos.x
       /\ imgPos.x <= 2 * FillW - offscreen.width
       /\ offscreen.height <= imgPos.y
       /\ imgPos.y <= 2 * FillH - offscreen.height

\* a sprite as large as the canvas, after a phrase re-rolled its velocity
\* between two frames
C20_Witness ==
    /\ animating
    /\ obs.last = "frame"
    /\ rafNext >= 4
    /\ offscreen.width = FillW
    /\ offscreen.height = FillH
    /\ velocity.vr = 2
    /\ imgPos.rotation < 0

\* C16 as stated: every speakRandom call leaves position and rotation alone
\* and leaves as velocity the one its random draws gave, with vx and vy in
\* [-6, 6) pixels and |vr| in [0.05, 0.25), whether or not speech is
\* available.
C16_SpeakRerolls ==
    [][obs'.last = "speak" =>
          /\ imgPos' = imgPos
          /\ \A rolled \in PhysVelocity :
                /\ speakRandomVelocity(synth, rolled, velocity) = rolled
                /\ rolled.vx >= -12 /\ rolled.vx < 12
                /\ rolled.vy >= -12 /\ rolled.vy < 12
                /\ Abs(rolled.vr) >= 1 /\ Abs(rolled.vr) < 5]_vars

\* C17: a saveHistory call leaves the index on the last entry, which is the
\* canvas as it was at the call; the entries up to the old index stay in
\* order before it, without the oldest one when they were already 20.
C17_SnapshotIsLast ==
    [][(obs'.last \in {"begin", "rebegin"} /\ ~animating) =>
          LET kept == SubSeq(history, 1, historyIndex + 1)
          IN  /\ historyIndex' = Len(history') - 1
              /\ history'[Len(history')] = buffer
              /\ IF Len(kept) + 1 > MaxHistory
                 THEN history' = Tail(kept) \o <<buffer>>
                 ELSE history' = kept \o <<buffer>>]_vars

\* a stroke has begun on a full stack, whose oldest entry was dropped
C17_Witness ==
    /\ obs.last = "begin"
    /\ isDrawing
    /\ obs.n > MaxHistory + 1
    /\ Len(history) = MaxHistory
    /\ historyIndex = MaxHistory - 1
    /\ history[1] # White /\ history[1] = history[MaxHistory]
====
